---- MODULE Spec2Model ----
(***************************************************************************)
(* Model of GameDataEnricher (src/Task2.py): the three per-field model     *)
(* queries with their response normalisation and fallbacks, and the        *)
(* sequential, rate-limited loop of process_dataframe.                     *)
(*                                                                         *)
(* Text is a sequence of Unicode code points, so that strip, split, lower   *)
(* and the substring test are computed character by character.             *)
(***************************************************************************)
EXTENDS Integers, Sequences, FiniteSets, TLC

VARIABLES
    df,            \* the DataFrame: [columns : Seq(name), data : Seq(Seq(cell))]
    df_in,         \* history: the DataFrame as it was handed to the first run
    pc,            \* position inside process_dataframe
    idx,           \* loop index of df.iterrows()
    genres,        \* local list genres
    descriptions,  \* local list descriptions
    player_modes,  \* local list player_modes
    trace,         \* history: model calls and sleeps of the current run
    service,       \* the model service behind self.model.generate_content
    run,           \* number of completed process_dataframe calls
    first_out,     \* history: the DataFrame returned by the first run
    raw,           \* a raw response text handed to one query method
    applied,       \* which query method was applied to raw
    out            \* what that method returned, and the branch that returned

vars == <<df, df_in, pc, idx, genres, descriptions, player_modes, trace,
          service, run, first_out, raw, applied, out>>

pipeVars == <<df, df_in, pc, idx, genres, descriptions, player_modes, trace,
              service, run, first_out>>

normVars == <<raw, applied, out>>

----------------------------------------------------------------------------
(* Bounds *)

MaxRows == 2

MaxRuns == 2

MaxFrags == 3

MaxWords == 32

----------------------------------------------------------------------------
(* Python str operations *)

\* A text is a sequence of code points, as a Python str is.

\* The characters str.strip() and str.split() treat as whitespace: TAB, LF, VT,
\* FF, CR, FS, GS, RS, US, SPACE, NEL, NBSP and the Unicode spaces.
Whitespace ==
    {9, 10, 11, 12, 13, 28, 29, 30, 31, 32, 133, 160, 5760} \cup (8192..8202)
        \cup {8232, 8233, 8239, 8287, 12288}

UpperCase == <<65, 66, 67, 68, 69, 70, 71, 72, 73, 74, 75, 76, 77,
               78, 79, 80, 81, 82, 83, 84, 85, 86, 87, 88, 89, 90>>

LowerCase == <<97, 98, 99, 100, 101, 102, 103, 104, 105, 106, 107, 108, 109,
               110, 111, 112, 113, 114, 115, 116, 117, 118, 119, 120, 121, 122>>

\* The simple lowercase mappings of the non-ASCII code points, as
\* <<first, last, step, delta>>: every code point first, first + step, ...,
\* last lowers to itself plus delta.
LowerRanges ==
    { <<192, 214, 1, 32>>, <<216, 222, 1, 32>>, <<256, 302, 2, 1>>, <<306, 310, 2, 1>>,
      <<313, 327, 2, 1>>, <<330, 374, 2, 1>>, <<376, 376, 1, -121>>, <<377, 381, 2, 1>>,
      <<385, 385, 1, 210>>, <<386, 388, 2, 1>>, <<390, 390, 1, 206>>, <<391, 391, 1, 1>>,
      <<393, 394, 1, 205>>, <<395, 395, 1, 1>>, <<398, 398, 1, 79>>, <<399, 399, 1, 202>>,
      <<400, 400, 1, 203>>, <<401, 401, 1, 1>>, <<403, 403, 1, 205>>, <<404, 404, 1, 207>>,
      <<406, 406, 1, 211>>, <<407, 407, 1, 209>>, <<408, 408, 1, 1>>, <<412, 412, 1, 211>>,
      <<413, 413, 1, 213>>, <<415, 415, 1, 214>>, <<416, 420, 2, 1>>, <<422, 422, 1, 218>>,
      <<423, 423, 1, 1>>, <<425, 425, 1, 218>>, <<428, 428, 1, 1>>, <<430, 430, 1, 218>>,
      <<431, 431, 1, 1>>, <<433, 434, 1, 217>>, <<435, 437, 2, 1>>, <<439, 439, 1, 219>>,
      <<440, 440, 1, 1>>, <<444, 444, 1, 1>>, <<452, 452, 1, 2>>, <<453, 453, 1, 1>>,
      <<455, 455, 1, 2>>, <<456, 456, 1, 1>>, <<458, 458, 1, 2>>, <<459, 475, 2, 1>>,
      <<478, 494, 2, 1>>, <<497, 497, 1, 2>>, <<498, 500, 2, 1>>, <<502, 502, 1, -97>>,
      <<503, 503, 1, -56>>, <<504, 542, 2, 1>>, <<544, 544, 1, -130>>, <<546, 562, 2, 1>>,
      <<570, 570, 1, 10795>>, <<571, 571, 1, 1>>, <<573, 573, 1, -163>>, <<574, 574, 1, 10792>>,
      <<577, 577, 1, 1>>, <<579, 579, 1, -195>>, <<580, 580, 1, 69>>, <<581, 581, 1, 71>>,
      <<582, 590, 2, 1>>, <<880, 882, 2, 1>>, <<886, 886, 1, 1>>, <<895, 895, 1, 116>>,
      <<902, 902, 1, 38>>, <<904, 906, 1, 37>>, <<908, 908, 1, 64>>, <<910, 911, 1, 63>>,
      <<913, 929, 1, 32>>, <<931, 939, 1, 32>>, <<975, 975, 1, 8>>, <<984, 1006, 2, 1>>,
      <<1012, 1012, 1, -60>>, <<1015, 1015, 1, 1>>, <<1017, 1017, 1, -7>>, <<1018, 1018, 1, 1>>,
      <<1021, 1023, 1, -130>>, <<1024, 1039, 1, 80>>, <<1040, 1071, 1, 32>>, <<1120, 1152, 2, 1>>,
      <<1162, 1214, 2, 1>>, <<1216, 1216, 1, 15>>, <<1217, 1229, 2, 1>>, <<1232, 1326, 2, 1>>,
      <<1329, 1366, 1, 48>>, <<4256, 4293, 1, 7264>>, <<4295, 4295, 1, 7264>>, <<4301, 4301, 1, 7264>>,
      <<5024, 5103, 1, 38864>>, <<5104, 5109, 1, 8>>, <<7312, 7354, 1, -3008>>, <<7357, 7359, 1, -3008>>,
      <<7680, 7828, 2, 1>>, <<7838, 7838, 1, -7615>>, <<7840, 7934, 2, 1>>, <<7944, 7951, 1, -8>>,
      <<7960, 7965, 1, -8>>, <<7976, 7983, 1, -8>>, <<7992, 7999, 1, -8>>, <<8008, 8013, 1, -8>>,
      <<8025, 8031, 2, -8>>, <<8040, 8047, 1, -8>>, <<8072, 8079, 1, -8>>, <<8088, 8095, 1, -8>>,
      <<8104, 8111, 1, -8>>, <<8120, 8121, 1, -8>>, <<8122, 8123, 1, -74>>, <<8124, 8124, 1, -9>>,
      <<8136, 8139, 1, -86>>, <<8140, 8140, 1, -9>>, <<8152, 8153, 1, -8>>, <<8154, 8155, 1, -100>>,
      <<8168, 8169, 1, -8>>, <<8170, 8171, 1, -112>>, <<8172, 8172, 1, -7>>, <<8184, 8185, 1, -128>>,
      <<8186, 8187, 1, -126>>, <<8188, 8188, 1, -9>>, <<8486, 8486, 1, -7517>>, <<8490, 8490, 1, -8383>>,
      <<8491, 8491, 1, -8262>>, <<8498, 8498, 1, 28>>, <<8544, 8559, 1, 16>>, <<8579, 8579, 1, 1>>,
      <<9398, 9423, 1, 26>>, <<11264, 11311, 1, 48>>, <<11360, 11360, 1, 1>>, <<11362, 11362, 1, -10743>>,
      <<11363, 11363, 1, -3814>>, <<11364, 11364, 1, -10727>>, <<11367, 11371, 2, 1>>, <<11373, 11373, 1, -10780>>,
      <<11374, 11374, 1, -10749>>, <<11375, 11375, 1, -10783>>, <<11376, 11376, 1, -10782>>, <<11378, 11378, 1, 1>>,
      <<11381, 11381, 1, 1>>, <<11390, 11391, 1, -10815>>, <<11392, 11490, 2, 1>>, <<11499, 11501, 2, 1>>,
      <<11506, 11506, 1, 1>>, <<42560, 42604, 2, 1>>, <<42624, 42650, 2, 1>>, <<42786, 42798, 2, 1>>,
      <<42802, 42862, 2, 1>>, <<42873, 42875, 2, 1>>, <<42877, 42877, 1, -35332>>, <<42878, 42886, 2, 1>>,
      <<42891, 42891, 1, 1>>, <<42893, 42893, 1, -42280>>, <<42896, 42898, 2, 1>>, <<42902, 42920, 2, 1>>,
      <<42922, 42922, 1, -42308>>, <<42923, 42923, 1, -42319>>, <<42924, 42924, 1, -42315>>, <<42925, 42925, 1, -42305>>,
      <<42926, 42926, 1, -42308>>, <<42928, 42928, 1, -42258>>, <<42929, 42929, 1, -42282>>, <<42930, 42930, 1, -42261>>,
      <<42931, 42931, 1, 928>>, <<42932, 42946, 2, 1>>, <<42948, 42948, 1, -48>>, <<42949, 42949, 1, -42307>>,
      <<42950, 42950, 1, -35384>>, <<42951, 42953, 2, 1>>, <<42960, 42960, 1, 1>>, <<42966, 42968, 2, 1>>,
      <<42997, 42997, 1, 1>>, <<65313, 65338, 1, 32>>, <<66560, 66599, 1, 40>>, <<66736, 66771, 1, 40>>,
      <<66928, 66938, 1, 39>>, <<66940, 66954, 1, 39>>, <<66956, 66962, 1, 39>>, <<66964, 66965, 1, 39>>,
      <<68736, 68786, 1, 64>>, <<71840, 71871, 1, 32>>, <<93760, 93791, 1, 32>>, <<125184, 125217, 1, 34>> }

\* Code points that are cased and not case-ignorable, as <<first, last>>.
CasedRanges ==
    { <<65, 90>>, <<97, 122>>, <<170, 170>>, <<181, 181>>, <<186, 186>>,
      <<192, 214>>, <<216, 246>>, <<248, 442>>, <<444, 447>>, <<452, 659>>,
      <<661, 687>>, <<880, 883>>, <<886, 887>>, <<891, 893>>, <<895, 895>>,
      <<902, 902>>, <<904, 906>>, <<908, 908>>, <<910, 929>>, <<931, 1013>>,
      <<1015, 1153>>, <<1162, 1327>>, <<1329, 1366>>, <<1376, 1416>>, <<4256, 4293>>,
      <<4295, 4295>>, <<4301, 4301>>, <<4304, 4346>>, <<4349, 4351>>, <<5024, 5109>>,
      <<5112, 5117>>, <<7296, 7304>>, <<7312, 7354>>, <<7357, 7359>>, <<7424, 7467>>,
      <<7531, 7543>>, <<7545, 7578>>, <<7680, 7957>>, <<7960, 7965>>, <<7968, 8005>>,
      <<8008, 8013>>, <<8016, 8023>>, <<8025, 8025>>, <<8027, 8027>>, <<8029, 8029>>,
      <<8031, 8061>>, <<8064, 8116>>, <<8118, 8124>>, <<8126, 8126>>, <<8130, 8132>>,
      <<8134, 8140>>, <<8144, 8147>>, <<8150, 8155>>, <<8160, 8172>>, <<8178, 8180>>,
      <<8182, 8188>>, <<8450, 8450>>, <<8455, 8455>>, <<8458, 8467>>, <<8469, 8469>>,
      <<8473, 8477>>, <<8484, 8484>>, <<8486, 8486>>, <<8488, 8488>>, <<8490, 8493>>,
      <<8495, 8500>>, <<8505, 8505>>, <<8508, 8511>>, <<8517, 8521>>, <<8526, 8526>>,
      <<8544, 8575>>, <<8579, 8580>>, <<9398, 9449>>, <<11264, 11387>>, <<11390, 11492>>,
      <<11499, 11502>>, <<11506, 11507>>, <<11520, 11557>>, <<11559, 11559>>, <<11565, 11565>>,
      <<42560, 42605>>, <<42624, 42651>>, <<42786, 42863>>, <<42865, 42887>>, <<42891, 42894>>,
      <<42896, 42954>>, <<42960, 42961>>, <<42963, 42963>>, <<42965, 42969>>, <<42997, 42998>>,
      <<43002, 43002>>, <<43824, 43866>>, <<43872, 43880>>, <<43888, 43967>>, <<64256, 64262>>,
      <<64275, 64279>>, <<65313, 65338>>, <<65345, 65370>>, <<66560, 66639>>, <<66736, 66771>>,
      <<66776, 66811>>, <<66928, 66938>>, <<66940, 66954>>, <<66956, 66962>>, <<66964, 66965>>,
      <<66967, 66977>>, <<66979, 66993>>, <<66995, 67001>>, <<67003, 67004>>, <<68736, 68786>>,
      <<68800, 68850>>, <<71840, 71903>>, <<93760, 93823>>, <<119808, 119892>>, <<119894, 119964>>,
      <<119966, 119967>>, <<119970, 119970>>, <<119973, 119974>>, <<119977, 119980>>, <<119982, 119993>>,
      <<119995, 119995>>, <<119997, 120003>>, <<120005, 120069>>, <<120071, 120074>>, <<120077, 120084>>,
      <<120086, 120092>>, <<120094, 120121>>, <<120123, 120126>>, <<120128, 120132>>, <<120134, 120134>>,
      <<120138, 120144>>, <<120146, 120485>>, <<120488, 120512>>, <<120514, 120538>>, <<120540, 120570>>,
      <<120572, 120596>>, <<120598, 120628>>, <<120630, 120654>>, <<120656, 120686>>, <<120688, 120712>>,
      <<120714, 120744>>, <<120746, 120770>>, <<120772, 120779>>, <<122624, 122633>>, <<122635, 122654>>,
      <<125184, 125251>>, <<127280, 127305>>, <<127312, 127337>>, <<127344, 127369>> }

\* Case-ignorable code points, as <<first, last>>.
CaseIgnorableRanges ==
    { <<39, 39>>, <<46, 46>>, <<58, 58>>, <<94, 94>>, <<96, 96>>,
      <<168, 168>>, <<173, 173>>, <<175, 175>>, <<180, 180>>, <<183, 184>>,
      <<688, 879>>, <<884, 885>>, <<890, 890>>, <<900, 901>>, <<903, 903>>,
      <<1155, 1161>>, <<1369, 1369>>, <<1375, 1375>>, <<1425, 1469>>, <<1471, 1471>>,
      <<1473, 1474>>, <<1476, 1477>>, <<1479, 1479>>, <<1524, 1524>>, <<1536, 1541>>,
      <<1552, 1562>>, <<1564, 1564>>, <<1600, 1600>>, <<1611, 1631>>, <<1648, 1648>>,
      <<1750, 1757>>, <<1759, 1768>>, <<1770, 1773>>, <<1807, 1807>>, <<1809, 1809>>,
      <<1840, 1866>>, <<1958, 1968>>, <<2027, 2037>>, <<2042, 2042>>, <<2045, 2045>>,
      <<2070, 2093>>, <<2137, 2139>>, <<2184, 2184>>, <<2192, 2193>>, <<2200, 2207>>,
      <<2249, 2306>>, <<2362, 2362>>, <<2364, 2364>>, <<2369, 2376>>, <<2381, 2381>>,
      <<2385, 2391>>, <<2402, 2403>>, <<2417, 2417>>, <<2433, 2433>>, <<2492, 2492>>,
      <<2497, 2500>>, <<2509, 2509>>, <<2530, 2531>>, <<2558, 2558>>, <<2561, 2562>>,
      <<2620, 2620>>, <<2625, 2626>>, <<2631, 2632>>, <<2635, 2637>>, <<2641, 2641>>,
      <<2672, 2673>>, <<2677, 2677>>, <<2689, 2690>>, <<2748, 2748>>, <<2753, 2757>>,
      <<2759, 2760>>, <<2765, 2765>>, <<2786, 2787>>, <<2810, 2815>>, <<2817, 2817>>,
      <<2876, 2876>>, <<2879, 2879>>, <<2881, 2884>>, <<2893, 2893>>, <<2901, 2902>>,
      <<2914, 2915>>, <<2946, 2946>>, <<3008, 3008>>, <<3021, 3021>>, <<3072, 3072>>,
      <<3076, 3076>>, <<3132, 3132>>, <<3134, 3136>>, <<3142, 3144>>, <<3146, 3149>>,
      <<3157, 3158>>, <<3170, 3171>>, <<3201, 3201>>, <<3260, 3260>>, <<3263, 3263>>,
      <<3270, 3270>>, <<3276, 3277>>, <<3298, 3299>>, <<3328, 3329>>, <<3387, 3388>>,
      <<3393, 3396>>, <<3405, 3405>>, <<3426, 3427>>, <<3457, 3457>>, <<3530, 3530>>,
      <<3538, 3540>>, <<3542, 3542>>, <<3633, 3633>>, <<3636, 3642>>, <<3654, 3662>>,
      <<3761, 3761>>, <<3764, 3772>>, <<3782, 3782>>, <<3784, 3789>>, <<3864, 3865>>,
      <<3893, 3893>>, <<3895, 3895>>, <<3897, 3897>>, <<3953, 3966>>, <<3968, 3972>>,
      <<3974, 3975>>, <<3981, 3991>>, <<3993, 4028>>, <<4038, 4038>>, <<4141, 4144>>,
      <<4146, 4151>>, <<4153, 4154>>, <<4157, 4158>>, <<4184, 4185>>, <<4190, 4192>>,
      <<4209, 4212>>, <<4226, 4226>>, <<4229, 4230>>, <<4237, 4237>>, <<4253, 4253>>,
      <<4348, 4348>>, <<4957, 4959>>, <<5906, 5908>>, <<5938, 5939>>, <<5970, 5971>>,
      <<6002, 6003>>, <<6068, 6069>>, <<6071, 6077>>, <<6086, 6086>>, <<6089, 6099>>,
      <<6103, 6103>>, <<6109, 6109>>, <<6155, 6159>>, <<6211, 6211>>, <<6277, 6278>>,
      <<6313, 6313>>, <<6432, 6434>>, <<6439, 6440>>, <<6450, 6450>>, <<6457, 6459>>,
      <<6679, 6680>>, <<6683, 6683>>, <<6742, 6742>>, <<6744, 6750>>, <<6752, 6752>>,
      <<6754, 6754>>, <<6757, 6764>>, <<6771, 6780>>, <<6783, 6783>>, <<6823, 6823>>,
      <<6832, 6862>>, <<6912, 6915>>, <<6964, 6964>>, <<6966, 6970>>, <<6972, 6972>>,
      <<6978, 6978>>, <<7019, 7027>>, <<7040, 7041>>, <<7074, 7077>>, <<7080, 7081>>,
      <<7083, 7085>>, <<7142, 7142>>, <<7144, 7145>>, <<7149, 7149>>, <<7151, 7153>>,
      <<7212, 7219>>, <<7222, 7223>>, <<7288, 7293>>, <<7376, 7378>>, <<7380, 7392>>,
      <<7394, 7400>>, <<7405, 7405>>, <<7412, 7412>>, <<7416, 7417>>, <<7468, 7530>>,
      <<7544, 7544>>, <<7579, 7679>>, <<8125, 8125>>, <<8127, 8129>>, <<8141, 8143>>,
      <<8157, 8159>>, <<8173, 8175>>, <<8189, 8190>>, <<8203, 8207>>, <<8216, 8217>>,
      <<8228, 8228>>, <<8231, 8231>>, <<8234, 8238>>, <<8288, 8292>>, <<8294, 8303>>,
      <<8305, 8305>>, <<8319, 8319>>, <<8336, 8348>>, <<8400, 8432>>, <<11388, 11389>>,
      <<11503, 11505>>, <<11631, 11631>>, <<11647, 11647>>, <<11744, 11775>>, <<11823, 11823>>,
      <<12293, 12293>>, <<12330, 12333>>, <<12337, 12341>>, <<12347, 12347>>, <<12441, 12446>>,
      <<12540, 12542>>, <<40981, 40981>>, <<42232, 42237>>, <<42508, 42508>>, <<42607, 42610>>,
      <<42612, 42621>>, <<42623, 42623>>, <<42652, 42655>>, <<42736, 42737>>, <<42752, 42785>>,
      <<42864, 42864>>, <<42888, 42890>>, <<42994, 42996>>, <<43000, 43001>>, <<43010, 43010>>,
      <<43014, 43014>>, <<43019, 43019>>, <<43045, 43046>>, <<43052, 43052>>, <<43204, 43205>>,
      <<43232, 43249>>, <<43263, 43263>>, <<43302, 43309>>, <<43335, 43345>>, <<43392, 43394>>,
      <<43443, 43443>>, <<43446, 43449>>, <<43452, 43453>>, <<43471, 43471>>, <<43493, 43494>>,
      <<43561, 43566>>, <<43569, 43570>>, <<43573, 43574>>, <<43587, 43587>>, <<43596, 43596>>,
      <<43632, 43632>>, <<43644, 43644>>, <<43696, 43696>>, <<43698, 43700>>, <<43703, 43704>>,
      <<43710, 43711>>, <<43713, 43713>>, <<43741, 43741>>, <<43756, 43757>>, <<43763, 43764>>,
      <<43766, 43766>>, <<43867, 43871>>, <<43881, 43883>>, <<44005, 44005>>, <<44008, 44008>>,
      <<44013, 44013>>, <<64286, 64286>>, <<64434, 64450>>, <<65024, 65039>>, <<65043, 65043>>,
      <<65056, 65071>>, <<65106, 65106>>, <<65109, 65109>>, <<65279, 65279>>, <<65287, 65287>>,
      <<65294, 65294>>, <<65306, 65306>>, <<65342, 65342>>, <<65344, 65344>>, <<65392, 65392>>,
      <<65438, 65439>>, <<65507, 65507>>, <<65529, 65531>>, <<66045, 66045>>, <<66272, 66272>>,
      <<66422, 66426>>, <<67456, 67461>>, <<67463, 67504>>, <<67506, 67514>>, <<68097, 68099>>,
      <<68101, 68102>>, <<68108, 68111>>, <<68152, 68154>>, <<68159, 68159>>, <<68325, 68326>>,
      <<68900, 68903>>, <<69291, 69292>>, <<69446, 69456>>, <<69506, 69509>>, <<69633, 69633>>,
      <<69688, 69702>>, <<69744, 69744>>, <<69747, 69748>>, <<69759, 69761>>, <<69811, 69814>>,
      <<69817, 69818>>, <<69821, 69821>>, <<69826, 69826>>, <<69837, 69837>>, <<69888, 69890>>,
      <<69927, 69931>>, <<69933, 69940>>, <<70003, 70003>>, <<70016, 70017>>, <<70070, 70078>>,
      <<70089, 70092>>, <<70095, 70095>>, <<70191, 70193>>, <<70196, 70196>>, <<70198, 70199>>,
      <<70206, 70206>>, <<70367, 70367>>, <<70371, 70378>>, <<70400, 70401>>, <<70459, 70460>>,
      <<70464, 70464>>, <<70502, 70508>>, <<70512, 70516>>, <<70712, 70719>>, <<70722, 70724>>,
      <<70726, 70726>>, <<70750, 70750>>, <<70835, 70840>>, <<70842, 70842>>, <<70847, 70848>>,
      <<70850, 70851>>, <<71090, 71093>>, <<71100, 71101>>, <<71103, 71104>>, <<71132, 71133>>,
      <<71219, 71226>>, <<71229, 71229>>, <<71231, 71232>>, <<71339, 71339>>, <<71341, 71341>>,
      <<71344, 71349>>, <<71351, 71351>>, <<71453, 71455>>, <<71458, 71461>>, <<71463, 71467>>,
      <<71727, 71735>>, <<71737, 71738>>, <<71995, 71996>>, <<71998, 71998>>, <<72003, 72003>>,
      <<72148, 72151>>, <<72154, 72155>>, <<72160, 72160>>, <<72193, 72202>>, <<72243, 72248>>,
      <<72251, 72254>>, <<72263, 72263>>, <<72273, 72278>>, <<72281, 72283>>, <<72330, 72342>>,
      <<72344, 72345>>, <<72752, 72758>>, <<72760, 72765>>, <<72767, 72767>>, <<72850, 72871>>,
      <<72874, 72880>>, <<72882, 72883>>, <<72885, 72886>>, <<73009, 73014>>, <<73018, 73018>>,
      <<73020, 73021>>, <<73023, 73029>>, <<73031, 73031>>, <<73104, 73105>>, <<73109, 73109>>,
      <<73111, 73111>>, <<73459, 73460>>, <<78896, 78904>>, <<92912, 92916>>, <<92976, 92982>>,
      <<92992, 92995>>, <<94031, 94031>>, <<94095, 94111>>, <<94176, 94177>>, <<94179, 94180>>,
      <<110576, 110579>>, <<110581, 110587>>, <<110589, 110590>>, <<113821, 113822>>, <<113824, 113827>>,
      <<118528, 118573>>, <<118576, 118598>>, <<119143, 119145>>, <<119155, 119170>>, <<119173, 119179>>,
      <<119210, 119213>>, <<119362, 119364>>, <<121344, 121398>>, <<121403, 121452>>, <<121461, 121461>>,
      <<121476, 121476>>, <<121499, 121503>>, <<121505, 121519>>, <<122880, 122886>>, <<122888, 122904>>,
      <<122907, 122913>>, <<122915, 122916>>, <<122918, 122922>>, <<123184, 123197>>, <<123566, 123566>>,
      <<123628, 123631>>, <<125136, 125142>>, <<125252, 125259>>, <<127995, 127999>>, <<917505, 917505>>,
      <<917536, 917631>>, <<917760, 917999>> }

IsCased(c) == \E r \in CasedRanges : r[1] <= c /\ c <= r[2]

IsCaseIgnorable(c) == \E r \in CaseIgnorableRanges : r[1] <= c /\ c <= r[2]

CapitalSigma == 931

CapitalIWithDot == 304

\* The lowercase of one code point out of context: one code point, or two
\* for U+0130 (i and the combining dot above).
lower_char(c) ==
    IF c < 128 THEN (IF 65 <= c /\ c <= 90 THEN <<c + 32>> ELSE <<c>>)
    ELSE IF c = CapitalIWithDot THEN <<105, 775>>
    ELSE IF \E r \in LowerRanges : r[1] <= c /\ c <= r[2] /\ (c - r[1]) % r[3] = 0
         THEN <<c + (CHOOSE r \in LowerRanges :
                        r[1] <= c /\ c <= r[2] /\ (c - r[1]) % r[3] = 0)[4]>>
         ELSE <<c>>

\* Whether the capital sigma at position i of s is final: the nearest code
\* point before it that is not case-ignorable is cased, and the nearest one
\* after it that is not case-ignorable is not cased (or there is none).
final_sigma(s, i) ==
    LET before == {j \in 1..(i - 1) : ~IsCaseIgnorable(s[j])}
        after  == {j \in (i + 1)..Len(s) : ~IsCaseIgnorable(s[j])}
    IN  /\ before # {}
        /\ IsCased(s[CHOOSE j \in before : \A k \in before : k <= j])
        /\ \/ after = {}
           \/ ~IsCased(s[CHOOSE j \in after : \A k \in after : j <= k])

\* The lowercase of the code point at position i of s.
lower_at(s, i) ==
    IF s[i] = CapitalSigma
    THEN <<IF final_sigma(s, i) THEN 962 ELSE 963>>
    ELSE lower_char(s[i])

\* str.lower(): the lowercase of every code point, in order.  Only U+0130
\* lowers to two code points, so the result is longer by one for each.
lower(s) ==
    LET dotted(i) == Cardinality({j \in 1..(i - 1) : s[j] = CapitalIWithDot}) IN
    IF dotted(Len(s) + 1) = 0
    THEN [i \in 1..Len(s) |-> lower_at(s, i)[1]]
    ELSE [k \in 1..(Len(s) + dotted(Len(s) + 1)) |->
            LET i == CHOOSE i \in 1..Len(s) :
                         /\ i + dotted(i) <= k
                         /\ k <= i + dotted(i) + Len(lower_at(s, i)) - 1
            IN  lower_at(s, i)[k - (i + dotted(i)) + 1]]

\* sub in s
Contains(sub, s) ==
    \E i \in 0..(Len(s) - Len(sub)) : SubSeq(s, i + 1, i + Len(sub)) = sub

\* str.strip(): the text from its first to its last non-whitespace character
strip(s) ==
    LET inked == {i \in 1..Len(s) : s[i] \notin Whitespace} IN
    IF inked = {} THEN <<>>
    ELSE SubSeq(s, CHOOSE i \in inked : \A j \in inked : i <= j,
                   CHOOSE i \in inked : \A j \in inked : j <= i)

\* str.split() with no separator: runs of whitespace separate the words and
\* no empty word is produced.  A word starts at a non-whitespace character
\* that is first or follows whitespace, and runs up to the next whitespace.
split(s) ==
    LET starts == {i \in 1..Len(s) :
                      s[i] \notin Whitespace /\ (i = 1 \/ s[i - 1] \in Whitespace)}
        start(k) == CHOOSE i \in starts : Cardinality({j \in starts : j < i}) = k - 1
        end(i) == CHOOSE e \in i..Len(s) :
                      /\ \A j \in i..e : s[j] \notin Whitespace
                      /\ (e = Len(s) \/ s[e + 1] \in Whitespace)
    IN  [k \in 1..Cardinality(starts) |-> SubSeq(s, start(k), end(start(k)))]

\* ' '.join(words)
RECURSIVE join(_)
join(words) ==
    IF words = <<>> THEN <<>>
    ELSE IF Len(words) = 1 THEN words[1]
    ELSE words[1] \o <<32>> \o join(Tail(words))

\* words[:n]
take(words, n) == SubSeq(words, 1, IF n < Len(words) THEN n ELSE Len(words))

----------------------------------------------------------------------------
(* Literals of the source *)

\* "Unknown"
Unknown == <<85, 110, 107, 110, 111, 119, 110>>

\* "A video game experience."
DefaultDescription ==
    <<65, 32, 118, 105, 100, 101, 111, 32, 103, 97, 109, 101, 32,
      101, 120, 112, 101, 114, 105, 101, 110, 99, 101, 46>>

\* "Singleplayer"
Singleplayer == <<83, 105, 110, 103, 108, 101, 112, 108, 97, 121, 101, 114>>

\* "Multiplayer"
Multiplayer == <<77, 117, 108, 116, 105, 112, 108, 97, 121, 101, 114>>

\* "Both"
Both == <<66, 111, 116, 104>>

valid_modes == {Singleplayer, Multiplayer, Both}

\* "single"
single == <<115, 105, 110, 103, 108, 101>>

\* "multi"
multi == <<109, 117, 108, 116, 105>>

\* "both"
both == <<98, 111, 116, 104>>

WordLimit == 30

KeptWords == 29

api_delay == 5

----------------------------------------------------------------------------
(* The model service and the three query methods *)

\* What self.model.generate_content(prompt).text gives: a text, or an exception.
Response(text) == [ok |-> TRUE, text |-> text]

Failure == [ok |-> FALSE, text |-> <<>>]

\* How a query method ends: it returns a value, or an exception leaves it.
Return(v, b) == [raised |-> FALSE, value |-> v, branch |-> b]

Raise == [raised |-> TRUE, value |-> <<>>, branch |-> 0]

classify_genre_lets_failure_out(resp) ==
    IF ~resp.ok THEN Raise
    ELSE LET genre == strip(resp.text) IN
         IF Contains(<<32>>, genre)
         THEN Return(split(genre)[1], 1)
         ELSE Return(genre, 2)

classify_genre(resp) ==
    IF ~resp.ok THEN Return(Unknown, 0)
    ELSE LET genre == strip(resp.text) IN
         IF Contains(<<32>>, genre)
         THEN Return(split(genre)[1], 1)
         ELSE Return(genre, 2)

generate_description_always_truncates(resp) ==
    IF ~resp.ok THEN Return(DefaultDescription, 0)
    ELSE LET description == strip(resp.text)
             words == split(description) IN
         Return(join(take(words, KeptWords)) \o <<46>>, 1)

generate_description_keeps_30(resp) ==
    IF ~resp.ok THEN Return(DefaultDescription, 0)
    ELSE LET description == strip(resp.text)
             words == split(description) IN
         IF Len(words) > WordLimit
         THEN Return(join(take(words, WordLimit)) \o <<46>>, 1)
         ELSE Return(description, 2)

generate_description(resp) ==
    IF ~resp.ok THEN Return(DefaultDescription, 0)
    ELSE LET description == strip(resp.text)
             words == split(description) IN
         IF Len(words) > WordLimit
         THEN Return(join(take(words, KeptWords)) \o <<46>>, 1)
         ELSE Return(description, 2)

\* The branch of determine_player_mode that returns for a stripped text:
\* 1, 2, 3 the substring rules, 4 the exact match, 5 the final default.
player_mode_branch_case_sensitive(mode) ==
    IF Contains(single, mode) THEN 1
    ELSE IF Contains(multi, mode) /\ ~Contains(both, mode) THEN 2
    ELSE IF Contains(both, mode) THEN 3
    ELSE IF mode \in valid_modes THEN 4
    ELSE 5

player_mode_branch_multi_first(mode) ==
    IF Contains(multi, lower(mode)) /\ ~Contains(both, lower(mode)) THEN 2
    ELSE IF Contains(single, lower(mode)) THEN 1
    ELSE IF Contains(both, lower(mode)) THEN 3
    ELSE IF mode \in valid_modes THEN 4
    ELSE 5

player_mode_branch(mode) ==
    IF Contains(single, lower(mode)) THEN 1
    ELSE IF Contains(multi, lower(mode)) /\ ~Contains(both, lower(mode)) THEN 2
    ELSE IF Contains(both, lower(mode)) THEN 3
    ELSE IF mode \in valid_modes THEN 4
    ELSE 5

determine_player_mode(resp) ==
    IF ~resp.ok THEN Return(Both, 0)
    ELSE LET mode == strip(resp.text)
             b == player_mode_branch(mode) IN
         CASE b = 1 -> Return(Singleplayer, 1)
           [] b = 2 -> Return(Multiplayer, 2)
           [] b = 3 -> Return(Both, 3)
           [] b = 4 -> Return(mode, 4)
           [] OTHER -> Return(Both, 5)

----------------------------------------------------------------------------
(* The DataFrame *)

\* Position of the first column called name (0 when there is none).
column_index(d, name) ==
    IF \E j \in 1..Len(d.columns) : d.columns[j] = name
    THEN CHOOSE j \in 1..Len(d.columns) :
             /\ d.columns[j] = name
             /\ \A k \in 1..(j - 1) : d.columns[k] # name
    ELSE 0

\* len(df)
total_games(d) == Len(d.data)

\* row['game_title'] of the row at position i (0-based, as idx)
game_title(d, i) == d.data[i + 1][column_index(d, "game_title")]

\* df[name] = values: an existing column keeps its place and takes the new
\* values, a new name becomes the last column.
set_column_always_appends(d, name, values) ==
    [columns |-> Append(d.columns, name),
     data    |-> [r \in 1..Len(d.data) |-> Append(d.data[r], values[r])]]

set_column(d, name, values) ==
    IF column_index(d, name) # 0
    THEN [columns |-> d.columns,
          data    |-> [r \in 1..Len(d.data) |->
                         [j \in 1..Len(d.columns) |->
                            IF d.columns[j] = name THEN values[r]
                            ELSE d.data[r][j]]]]
    ELSE [columns |-> Append(d.columns, name),
          data    |-> [r \in 1..Len(d.data) |-> Append(d.data[r], values[r])]]

----------------------------------------------------------------------------
(* Inputs: datasets, titles and what the model service may answer *)

\* "Chess Master 3000"
ChessMaster3000 ==
    <<67, 104, 101, 115, 115, 32, 77, 97, 115, 116, 101, 114, 32,
      51, 48, 48, 48>>

\* "Tetris"
Tetris == <<84, 101, 116, 114, 105, 115>>

Titles == {ChessMaster3000, Tetris}

Kinds == {"Genre", "Description", "PlayerMode"}

\* "0" to "9"
Digits == <<48, 49, 50, 51, 52, 53, 54, 55, 56, 57>>

\* Column layouts of the input file: game_title alone, with another column
\* before or after it, and with a column that carries one of the new names.
Layouts ==
    { <<"game_title">>,
      <<"thumbnail", "game_title">>,
      <<"game_title", "genre">>,
      <<"player_mode", "game_title">> }

\* "v0", "v1", ...: a cell of a column other than game_title
OtherCell(r) == <<118, Digits[(r % 10) + 1]>>

Dataset(layout, titles) ==
    [columns |-> layout,
     data    |-> [r \in 1..Len(titles) |->
                    [j \in 1..Len(layout) |->
                       IF layout[j] = "game_title" THEN titles[r]
                       ELSE OtherCell(r)]]]

SeqsUpTo(S, n) == UNION {[1..k -> S] : k \in 0..n}

Datasets ==
    {Dataset(layout, titles) : layout \in Layouts, titles \in SeqsUpTo(Titles, MaxRows)}

\* "Strategy game."
StrategyGame ==
    <<83, 116, 114, 97, 116, 101, 103, 121, 32, 103, 97, 109, 101, 46>>

\* "A turn based strategy game about chess tactics and openings with online
\* ranked play against real opponents worldwide daily."
ChessDescription ==
    <<65, 32, 116, 117, 114, 110, 32, 98, 97, 115, 101, 100, 32,
      115, 116, 114, 97, 116, 101, 103, 121, 32, 103, 97, 109, 101, 32,
      97, 98, 111, 117, 116, 32, 99, 104, 101, 115, 115, 32,
      116, 97, 99, 116, 105, 99, 115, 32, 97, 110, 100, 32,
      111, 112, 101, 110, 105, 110, 103, 115, 32, 119, 105, 116, 104, 32,
      111, 110, 108, 105, 110, 101, 32, 114, 97, 110, 107, 101, 100, 32,
      112, 108, 97, 121, 32, 97, 103, 97, 105, 110, 115, 116, 32,
      114, 101, 97, 108, 32, 111, 112, 112, 111, 110, 101, 110, 116, 115, 32,
      119, 111, 114, 108, 100, 119, 105, 100, 101, 32,
      100, 97, 105, 108, 121, 46>>

\* "This game supports both single-player campaign and online multiplayer"
ChessMode ==
    <<84, 104, 105, 115, 32, 103, 97, 109, 101, 32,
      115, 117, 112, 112, 111, 114, 116, 115, 32, 98, 111, 116, 104, 32,
      115, 105, 110, 103, 108, 101, 45, 112, 108, 97, 121, 101, 114, 32,
      99, 97, 109, 112, 97, 105, 103, 110, 32, 97, 110, 100, 32,
      111, 110, 108, 105, 110, 101, 32,
      109, 117, 108, 116, 105, 112, 108, 97, 121, 101, 114>>

\* The i-th word of a generated text: one or two letters.
Word(i) ==
    <<LowerCase[((i - 1) % 26) + 1]>> \o
    (IF i % 4 = 0 THEN <<LowerCase[(i % 26) + 1]>> ELSE <<>>)

SepStyles == {"space", "double", "newline", "formfeed", "nbsp", "mixed"}

\* The separator after the i-th word: a space, two spaces, a newline, a form
\* feed, a no-break space, or by turns a space and a tab with an em space.
SepAt(style, i) ==
    CASE style = "space"    -> <<32>>
      [] style = "double"   -> <<32, 32>>
      [] style = "newline"  -> <<10>>
      [] style = "formfeed" -> <<12>>
      [] style = "nbsp"     -> <<160>>
      [] OTHER              -> IF i % 2 = 0 THEN <<32>> ELSE <<9, 8195>>

RECURSIVE WordsText(_, _, _)
WordsText(i, n, style) ==
    IF i > n THEN <<>>
    ELSE IF i = n THEN Word(i)
    ELSE Word(i) \o SepAt(style, i) \o WordsText(i + 1, n, style)

\* Nothing, a space, a newline and a space, a form feed and a no-break space.
Pads == {<<>>, <<32>>, <<10, 32>>, <<12, 160>>}

DescriptionTexts ==
    {lead \o WordsText(1, n, style) \o trail :
        n \in 0..MaxWords, style \in SepStyles, lead \in Pads, trail \in Pads}

LongDescription == WordsText(1, WordLimit + 1, "space")

RECURSIVE concat(_)
concat(frags) ==
    IF frags = <<>> THEN <<>> ELSE Head(frags) \o concat(Tail(frags))

\* "Action", "RPG", "game.", and as separators a space, a tab, a newline, a
\* form feed and a no-break space.
GenreFrags ==
    { <<65, 99, 116, 105, 111, 110>>, <<82, 80, 71>>,
      <<103, 97, 109, 101, 46>>, <<32>>, <<9>>, <<10>>, <<12>>, <<160>> }

GenreTexts == {concat(f) : f \in SeqsUpTo(GenreFrags, MaxFrags)}

\* The three labels, "SINGLE", "multi", "MULT", "bo", "th", "solo", a space,
\* a no-break space, and three letters whose lowercase is not the plain one:
\* U+0130 (capital I with dot), U+03A3 (capital sigma), U+017F (long s).
ModeFrags ==
    { Singleplayer, Multiplayer, Both,
      <<83, 73, 78, 71, 76, 69>>, multi, <<77, 85, 76, 84>>,
      <<98, 111>>, <<116, 104>>, <<115, 111, 108, 111>>, <<32>>, <<160>>,
      <<CapitalIWithDot>>, <<CapitalSigma>>, <<383>> }

ModeTexts == {concat(f) : f \in SeqsUpTo(ModeFrags, MaxFrags)}

RawTexts == GenreTexts \cup ModeTexts \cup DescriptionTexts

\* The rendered prompt: its text is fixed by the method and the game title.
Prompt(kind, title) == [kind |-> kind, game_title |-> title]

Prompts == {Prompt(k, t) : k \in Kinds, t \in Titles}

\* The answers the model service can give to a prompt: a failure, or a text
\* (for the description of the second title, one of more than 30 words).
Outcomes(p) ==
    CASE p.kind = "Genre"       -> {Failure, Response(StrategyGame)}
      [] p.kind = "Description" ->
            IF p.game_title = ChessMaster3000
            THEN {Failure, Response(ChessDescription)}
            ELSE {Failure, Response(LongDescription)}
      [] OTHER                  -> {Failure, Response(ChessMode)}

\* A service that may answer each call with any outcome.
AnyService == [p \in Prompts |-> Outcomes(p)]

\* Deterministic stubs: the answer depends on the prompt only.
StubServices ==
    {[p \in Prompts |-> {f[p]}] :
        f \in {g \in [Prompts -> UNION {Outcomes(q) : q \in Prompts}] :
                  \A p \in Prompts : g[p] \in Outcomes(p)}}

\* self.model.generate_content(prompt)
generate_content(prompt) == service[prompt]

----------------------------------------------------------------------------
(* process_dataframe *)

CallEvent(kind, resp) == [type |-> "call", row |-> idx, kind |-> kind, resp |-> resp]

\* time.sleep(self.api_delay)
SleepEvent == [type |-> "sleep", row |-> idx, kind |-> "", resp |-> Failure, secs |-> api_delay]

\* The loop head: the next row if there is one, else the code after the loop.
loop_head(i, d) == IF i < total_games(d) THEN "genre" ELSE "add_columns"

Begin ==
    /\ genres' = <<>>
    /\ descriptions' = <<>>
    /\ player_modes' = <<>>
    /\ idx' = 0
    /\ trace' = <<>>
    /\ pc' = loop_head(0, df)
    /\ UNCHANGED <<df, df_in, service, run, first_out, normVars>>

\* main() calls process_dataframe on the loaded DataFrame.
Start ==
    /\ pc = "idle"
    /\ Begin

\* process_dataframe is called again on the DataFrame it returned.
CallAgain ==
    /\ pc = "returned"
    /\ run < MaxRuns
    /\ Begin

QueryGenre_retries_on_failure ==
    /\ pc = "genre"
    /\ \E resp \in generate_content(Prompt("Genre", game_title(df, idx))) :
         LET r == classify_genre(resp) IN
         /\ trace' = Append(trace, CallEvent("Genre", resp))
         /\ IF ~resp.ok
            THEN pc' = "genre" /\ UNCHANGED genres
            ELSE pc' = "sleep1" /\ genres' = Append(genres, r.value)
    /\ UNCHANGED <<df, df_in, idx, descriptions, player_modes, service, run,
                   first_out, normVars>>

QueryGenre ==
    /\ pc = "genre"
    /\ \E resp \in generate_content(Prompt("Genre", game_title(df, idx))) :
         LET r == classify_genre(resp) IN
         /\ trace' = Append(trace, CallEvent("Genre", resp))
         /\ IF r.raised
            THEN pc' = "aborted" /\ UNCHANGED genres
            ELSE pc' = "sleep1" /\ genres' = Append(genres, r.value)
    /\ UNCHANGED <<df, df_in, idx, descriptions, player_modes, service, run,
                   first_out, normVars>>

Sleep1 ==
    /\ pc = "sleep1"
    /\ trace' = Append(trace, SleepEvent)
    /\ pc' = "description"
    /\ UNCHANGED <<df, df_in, idx, genres, descriptions, player_modes, service,
                   run, first_out, normVars>>

QueryDescription ==
    /\ pc = "description"
    /\ \E resp \in generate_content(Prompt("Description", game_title(df, idx))) :
         LET r == generate_description(resp) IN
         /\ trace' = Append(trace, CallEvent("Description", resp))
         /\ IF r.raised
            THEN pc' = "aborted" /\ UNCHANGED descriptions
            ELSE pc' = "sleep2" /\ descriptions' = Append(descriptions, r.value)
    /\ UNCHANGED <<df, df_in, idx, genres, player_modes, service, run,
                   first_out, normVars>>

Sleep2 ==
    /\ pc = "sleep2"
    /\ trace' = Append(trace, SleepEvent)
    /\ pc' = "player_mode"
    /\ UNCHANGED <<df, df_in, idx, genres, descriptions, player_modes, service,
                   run, first_out, normVars>>

QueryPlayerMode ==
    /\ pc = "player_mode"
    /\ \E resp \in generate_content(Prompt("PlayerMode", game_title(df, idx))) :
         LET r == determine_player_mode(resp) IN
         /\ trace' = Append(trace, CallEvent("PlayerMode", resp))
         /\ IF r.raised
            THEN pc' = "aborted" /\ UNCHANGED player_modes
            ELSE pc' = "sleep3" /\ player_modes' = Append(player_modes, r.value)
    /\ UNCHANGED <<df, df_in, idx, genres, descriptions, service, run,
                   first_out, normVars>>

Sleep3_not_after_last_row ==
    /\ pc = "sleep3"
    /\ trace' = IF idx + 1 < total_games(df) THEN Append(trace, SleepEvent) ELSE trace
    /\ idx' = idx + 1
    /\ pc' = loop_head(idx + 1, df)
    /\ UNCHANGED <<df, df_in, genres, descriptions, player_modes, service,
                   run, first_out, normVars>>

Sleep3 ==
    /\ pc = "sleep3"
    /\ trace' = Append(trace, SleepEvent)
    /\ idx' = idx + 1
    /\ pc' = loop_head(idx + 1, df)
    /\ UNCHANGED <<df, df_in, genres, descriptions, player_modes, service,
                   run, first_out, normVars>>

AddColumns ==
    /\ pc = "add_columns"
    /\ IF /\ Len(genres) = total_games(df)
          /\ Len(descriptions) = total_games(df)
          /\ Len(player_modes) = total_games(df)
       THEN /\ df' = set_column(set_column(set_column(df, "genre", genres),
                                           "short_description", descriptions),
                                "player_mode", player_modes)
            /\ pc' = "returned"
            /\ run' = run + 1
            /\ first_out' = IF run = 0 THEN df' ELSE first_out
       ELSE /\ pc' = "aborted"
            /\ UNCHANGED <<df, run, first_out>>
    /\ UNCHANGED <<df_in, idx, genres, descriptions, player_modes, trace,
                   service, normVars>>

NormIdle ==
    /\ raw = <<>>
    /\ applied = "none"
    /\ out = Return(<<>>, 0)

PipeInit(services) ==
    /\ df \in Datasets
    /\ df_in = df
    /\ pc = "idle"
    /\ idx = 0
    /\ genres = <<>>
    /\ descriptions = <<>>
    /\ player_modes = <<>>
    /\ trace = <<>>
    /\ service \in services
    /\ run = 0
    /\ first_out = df

\* One run of process_dataframe, as main() makes it, against a service that
\* may answer or fail at every call.
Init ==
    /\ PipeInit({AnyService})
    /\ NormIdle

Next ==
    \/ Start
    \/ QueryGenre
    \/ Sleep1
    \/ QueryDescription
    \/ Sleep2
    \/ QueryPlayerMode
    \/ Sleep3
    \/ AddColumns

Spec == Init /\ [][Next]_vars

\* Repeated runs on the same DataFrame against a deterministic stub.
InitTwice ==
    /\ PipeInit(StubServices)
    /\ NormIdle

NextTwice ==
    \/ Next
    \/ CallAgain

SpecTwice == InitTwice /\ [][NextTwice]_vars

----------------------------------------------------------------------------
(* The query methods applied to one raw response *)

ApplyClassifyGenre ==
    /\ applied = "none"
    /\ applied' = "genre"
    /\ out' = classify_genre(Response(raw))
    /\ UNCHANGED <<raw, pipeVars>>

ApplyGenerateDescription ==
    /\ applied = "none"
    /\ applied' = "description"
    /\ out' = generate_description(Response(raw))
    /\ UNCHANGED <<raw, pipeVars>>

ApplyDeterminePlayerMode ==
    /\ applied = "none"
    /\ applied' = "player_mode"
    /\ out' = determine_player_mode(Response(raw))
    /\ UNCHANGED <<raw, pipeVars>>

InitNormalize ==
    /\ raw \in RawTexts
    /\ applied = "none"
    /\ out = Return(<<>>, 0)
    /\ df = Dataset(<<"game_title">>, <<>>)
    /\ df_in = df
    /\ pc = "idle"
    /\ idx = 0
    /\ genres = <<>>
    /\ descriptions = <<>>
    /\ player_modes = <<>>
    /\ trace = <<>>
    /\ service = AnyService
    /\ run = 0
    /\ first_out = df

NextNormalize ==
    \/ ApplyClassifyGenre
    \/ ApplyGenerateDescription
    \/ ApplyDeterminePlayerMode

SpecNormalize == InitNormalize /\ [][NextNormalize]_vars

----------------------------------------------------------------------------
(* Vocabulary of the properties *)

NewColumns == <<"genre", "short_description", "player_mode">>

KindOrder == <<"Genre", "Description", "PlayerMode">>

ColumnOf(kind) ==
    CASE kind = "Genre"       -> "genre"
      [] kind = "Description" -> "short_description"
      [] OTHER                -> "player_mode"

\* The cell of row r (0-based) in the column called name.
Cell(d, r, name) == d.data[r + 1][column_index(d, name)]

IsCall(e) == e.type = "call"

IsSleep(e) == e.type = "sleep"

Calls == SelectSeq(trace, IsCall)

Sleeps == SelectSeq(trace, IsSleep)

IsAscii(s) == \A i \in 1..Len(s) : s[i] < 128

\* Two characters that are the same ASCII letter, whatever their case.
SameLetter(a, b) ==
    \/ a = b
    \/ \E n \in 1..Len(UpperCase) : {a, b} = {UpperCase[n], LowerCase[n]}

\* sub occurs in an ASCII text s when the case of its letters is ignored.
ContainsAsciiCI(sub, s) ==
    \E i \in 0..(Len(s) - Len(sub)) :
        \A k \in 1..Len(sub) : SameLetter(s[i + k], sub[k])

\* sub occurs in s case-insensitively: it occurs in the lowercase of s.
ContainsCI(sub, s) == Contains(sub, lower(s))

ChessScenario ==
    /\ pc = "returned"
    /\ df_in = Dataset(<<"game_title">>, <<ChessMaster3000>>)
    /\ Len(Calls) = 3
    /\ Calls[1].resp = Response(StrategyGame)
    /\ Calls[2].resp = Response(ChessDescription)
    /\ Calls[3].resp = Response(ChessMode)

----------------------------------------------------------------------------
(* Properties *)

\* C1: a failed model call puts exactly the fallback of its kind in its
\* field ("Unknown", "A video game experience.", "Both"), every call that did
\* not fail puts the normalised response in its field, whatever happened to
\* the other calls of the row or of other rows, and the run is never aborted:
\* every state short of the return has a next step.
C1_FailedQueryFallsBack ==
    /\ pc # "aborted"
    /\ (pc # "returned" => ENABLED Next)
    /\ pc = "returned" =>
         \A r \in 0..(total_games(df) - 1) : \A n \in 1..3 :
            LET call == Calls[3 * r + n]
                cell == Cell(df, r, ColumnOf(KindOrder[n]))
            IN  /\ call.row = r /\ call.kind = KindOrder[n]
                /\ IF ~call.resp.ok
                   THEN cell = CASE n = 1 -> <<85, 110, 107, 110, 111, 119, 110>>
                                 [] n = 2 -> <<65, 32, 118, 105, 100, 101, 111, 32,
                                               103, 97, 109, 101, 32, 101, 120, 112,
                                               101, 114, 105, 101, 110, 99, 101, 46>>
                                 [] OTHER -> <<66, 111, 116, 104>>
                   ELSE cell = CASE n = 1 -> classify_genre(Response(call.resp.text)).value
                                 [] n = 2 -> generate_description(Response(call.resp.text)).value
                                 [] OTHER -> determine_player_mode(Response(call.resp.text)).value

\* C1 witness: a two-row run has returned in which one row had a failed and a
\* successful call and the other row had a failed call too.
C1_Witness ==
    /\ pc = "returned"
    /\ total_games(df) = 2
    /\ ~Calls[1].resp.ok
    /\ Calls[2].resp.ok
    /\ ~Calls[6].resp.ok

\* C2 (as stated): the returned DataFrame has the rows of the input in the
\* same order and its columns are the input's columns followed by exactly
\* genre, short_description, player_mode.
C2_ThreeNewTrailingColumns ==
    pc = "returned" =>
        /\ total_games(df) = total_games(df_in)
        /\ \A r \in 0..(total_games(df_in) - 1) : game_title(df, r) = game_title(df_in, r)
        /\ df.columns = df_in.columns \o NewColumns

\* C2 (amended): the returned DataFrame has the rows of the input in the same
\* order, every input column that does not carry one of the three new names
\* keeps its cells, and its columns are the input's columns followed by those
\* of genre, short_description, player_mode that the input does not have.
C2_InputColumnsThenMissingNewColumns ==
    pc = "returned" =>
        LET present(name) == \E j \in 1..Len(df_in.columns) : df_in.columns[j] = name
            missing(name) == ~present(name)
            new(name) == \E n \in 1..3 : NewColumns[n] = name
        IN  /\ total_games(df) = total_games(df_in)
            /\ df.columns = df_in.columns \o SelectSeq(NewColumns, missing)
            /\ \A r \in 1..total_games(df_in) : \A j \in 1..Len(df_in.columns) :
                  ~new(df_in.columns[j]) => df.data[r][j] = df_in.data[r][j]
            /\ \A n \in 1..3 : present(NewColumns[n]) =>
                  column_index(df, NewColumns[n]) = column_index(df_in, NewColumns[n])

\* C2 witness: a run has returned for a two-row input that already had a
\* genre column.
C2_Witness ==
    /\ pc = "returned"
    /\ total_games(df_in) = 2
    /\ df_in.columns = <<"game_title", "genre">>
    /\ df.columns = <<"game_title", "genre", "short_description", "player_mode">>

\* C3: the model calls made so far are the first calls of the sequence
\* (row 0: Genre, Description, PlayerMode), (row 1: ...), ..., each (row, kind)
\* at most once, and once the loop is over they are the whole sequence: 3 per
\* row, none for an empty dataset.
C3_CallsInRowThenKindOrder ==
    /\ Len(Calls) <= 3 * total_games(df)
    /\ \A i \in 1..Len(Calls) :
          /\ Calls[i].row = (i - 1) \div 3
          /\ Calls[i].kind = KindOrder[((i - 1) % 3) + 1]
    /\ pc \in {"add_columns", "returned"} => Len(Calls) = 3 * total_games(df)

\* C3 witness: a two-row run has returned after six calls, one of them failed.
C3_Witness ==
    /\ pc = "returned"
    /\ total_games(df) = 2
    /\ Len(Calls) = 6
    /\ ~Calls[4].resp.ok
    /\ Calls[5].resp.ok

\* C4: calls and waits alternate, starting with a call: every call is directly
\* followed by one wait of api_delay (or the run stands right before that
\* wait), no wait comes without a call before it, and at the end the waits are
\* as many as the calls, 3 per row, the last event being a wait.
C4_OneWaitAfterEveryCall ==
    /\ \A i \in 1..Len(trace) :
          /\ i % 2 = 1 => trace[i].type = "call"
          /\ i % 2 = 0 => trace[i].type = "sleep" /\ trace[i].secs = 5
    /\ Len(trace) % 2 = 1 => pc \in {"sleep1", "sleep2", "sleep3"}
    /\ pc \in {"add_columns", "returned"} =>
          /\ Len(Sleeps) = Len(Calls)
          /\ Len(Sleeps) = 3 * total_games(df)

\* C4 witness: a two-row run has returned whose last call failed and whose
\* last event is the wait after it.
C4_Witness ==
    /\ pc = "returned"
    /\ total_games(df) = 2
    /\ Len(trace) = 12
    /\ trace[11].type = "call" /\ ~trace[11].resp.ok
    /\ trace[12].type = "sleep"

\* C5: determine_player_mode returns one of the three labels for every text;
\* ignoring case (in the lowercase of the text), a text with "single" gives
\* Singleplayer; else one with "multi" and without "both" gives Multiplayer;
\* else one with "both" gives Both; a text with none of the three gives Both.
\* For an ASCII text, ignoring case is ignoring the case of each letter.
C5_PlayerModeTotalWithPrecedence ==
    applied = "player_mode" =>
        LET s == ContainsCI(single, raw)
            m == ContainsCI(multi, raw)
            b == ContainsCI(both, raw)
        IN  /\ ~out.raised
            /\ out.value \in {Singleplayer, Multiplayer, Both}
            /\ s => out.value = Singleplayer
            /\ (~s /\ m /\ ~b) => out.value = Multiplayer
            /\ (~s /\ ~(m /\ ~b) /\ b) => out.value = Both
            /\ (~s /\ ~m /\ ~b) => out.value = Both
            /\ IsAscii(raw) =>
                  /\ s <=> ContainsAsciiCI(single, raw)
                  /\ m <=> ContainsAsciiCI(multi, raw)
                  /\ b <=> ContainsAsciiCI(both, raw)

\* C5 witness: a text with "single", "multi" and "both" in it, not all in
\* lower case, was resolved to Singleplayer.
C5_Witness ==
    /\ applied = "player_mode"
    /\ IsAscii(raw)
    /\ ContainsCI(single, raw) /\ ContainsCI(multi, raw) /\ ContainsCI(both, raw)
    /\ ~Contains(single, raw)
    /\ out.value = Singleplayer

\* C6 (as stated): classify_genre returns the first whitespace-separated
\* token of the trimmed text when it has more than one token (separated by
\* spaces, tabs or newlines), and the trimmed text itself otherwise.
C6_FirstTokenOfSeveral ==
    applied = "genre" =>
        LET tokens == split(raw) IN
        out.value = IF Len(tokens) > 1 THEN tokens[1] ELSE strip(raw)

\* C7: for a text of more than 30 words generate_description returns its first
\* 29 words joined by single spaces and then one period; for a text of 30
\* words or fewer it returns the trimmed text.
C7_DescriptionCutTo29Words ==
    applied = "description" =>
        LET words == split(raw) IN
        IF Len(words) > 30
        THEN /\ out.value = join(SubSeq(words, 1, 29)) \o <<46>>
             /\ Len(split(out.value)) = 29
             /\ \A i \in 1..Len(out.value) :
                    out.value[i] \in Whitespace =>
                        /\ out.value[i] = 32
                        /\ i < Len(out.value)
                        /\ out.value[i + 1] \notin Whitespace
        ELSE out.value = strip(raw)

\* C7 witness: a text of more than 30 words, separated by no-break spaces,
\* was cut.
C7_Witness ==
    /\ applied = "description"
    /\ Len(split(raw)) > 30
    /\ Contains(<<160>>, strip(raw))
    /\ out.branch = 1

\* C8 (as stated): in the Chess Master 3000 scenario the row gets genre
\* "Strategy", the first 29 words of the description response followed by a
\* period, and player mode "Singleplayer".
C8_ChessRowCutDescription ==
    ChessScenario =>
        /\ Cell(df, 0, "genre") = <<83, 116, 114, 97, 116, 101, 103, 121>>
        /\ Cell(df, 0, "short_description") =
               join(take(split(ChessDescription), 29)) \o <<46>>
        /\ Cell(df, 0, "player_mode") = Singleplayer

\* C8 (amended): in the Chess Master 3000 scenario the row gets genre
\* "Strategy", the description response unchanged (it has 19 words, not more
\* than 30), and player mode "Singleplayer".
C8_ChessRowWholeDescription ==
    ChessScenario =>
        /\ Len(split(ChessDescription)) = 19
        /\ Cell(df, 0, "genre") = <<83, 116, 114, 97, 116, 101, 103, 121>>
        /\ Cell(df, 0, "short_description") = ChessDescription
        /\ Cell(df, 0, "player_mode") = Singleplayer

\* C8 witness: the scenario has run to its end.
C8_Witness ==
    /\ ChessScenario
    /\ run = 1
    /\ df.columns = <<"game_title", "genre", "short_description", "player_mode">>

\* C9: against a deterministic stub, every later run on the DataFrame that the
\* first run returned returns the same columns in the same order with the
\* same rows and values.
C9_SecondRunSameOutput ==
    (run >= 1 /\ pc = "returned") =>
        /\ df.columns = first_out.columns
        /\ df.data = first_out.data

\* C9 witness: a second run on a two-row DataFrame has returned, with a failed
\* and a successful call in it.
C9_Witness ==
    /\ run = 2
    /\ pc = "returned"
    /\ total_games(df) = 2
    /\ \E i, j \in 1..Len(Calls) : ~Calls[i].resp.ok /\ Calls[j].resp.ok

\* C10: the exact-match step of determine_player_mode never returns: a text
\* that gets past the three substring rules has none of "single", "multi",
\* "both" in it, whatever the case, is none of the three labels, and gets the
\* final default Both.
C10_ExactMatchNeverDecides ==
    applied = "player_mode" =>
        /\ out.branch # 4
        /\ out.branch \in {1, 2, 3, 5}
        /\ out.branch = 5 =>
              /\ ~ContainsCI(single, raw)
              /\ ~ContainsCI(multi, raw)
              /\ ~ContainsCI(both, raw)
              /\ strip(raw) \notin {Singleplayer, Multiplayer, Both}
              /\ out.value = Both

\* C10 witness: a non-empty text got past the three substring rules.
C10_Witness ==
    /\ applied = "player_mode"
    /\ out.branch = 5
    /\ strip(raw) # <<>>

====
